---- MODULE Spec2Model ----
(***************************************************************************)
(* State-machine model of the schema-to-field parsers.                     *)
(*                                                                         *)
(* ArrayParser (src/src/parsers/ArrayParser.ts) is modelled as one parser  *)
(* instance: its schema and options are chosen in Init and never change,   *)
(* its fields (items, count, max, rawValue, model, childrenParsers, ...)   *)
(* are the variables, and every public entry point (parse, the push /      *)
(* move / delete triggers, a child's onChange, reset, clear) is an action. *)
(*                                                                         *)
(* ObjectParser (src/unnamed/part_000) is one object parser with a child   *)
(* per property: parse() and the children's onChange, with the dependency  *)
(* propagation it runs, are its actions. NumberParser and IntegerParser    *)
(* (src/src/parsers/NumberParser.ts, src/unnamed/part_000) are one scalar  *)
(* parser: parse() and field.setValue are its actions, and parseValue is   *)
(* computed on JavaScript values as the code computes it. The FormSchema   *)
(* component (src/src/components/FormSchema.ts) is its ready flag, its     *)
(* root parser and the callbacks emitInputEvent leaves behind: the schema  *)
(* and options watchers, a field change, a tick and the settling of a      *)
(* validator promise are its actions. Each specification constructs one of *)
(* these and leaves the others idle.                                       *)
(*                                                                         *)
(* JavaScript arrays are sequences read with 0-based indices through Get   *)
(* and written through Put; `undefined` (and an array hole) is Undef; an   *)
(* undeclared numeric keyword is NONE.                                     *)
(***************************************************************************)
EXTENDS Integers, Sequences, FiniteSets, TLC

\* ------------------------------------------------------------------ bounds
MaxModel == 2        \* longest options.model handed to the constructor
MaxOps == 3          \* operations performed on the parser after parse()

\* ------------------------------------------------------------- value space
Undef == "undefined"
NONE == -1
Val == {"a", "b"}
DefaultVal == "d"
EnumVals == <<"a", "b">>
\* schema.items of a tuple schema: one entry per position
TupleItems == <<"first", "second">>

Min(a, b) == IF a < b THEN a ELSE b
Max(a, b) == IF a > b THEN a ELSE b

\* ------------------------------------------------------- JavaScript arrays
\* s[i] read: out of range (or a negative property name) reads undefined
Get(s, i) == IF i >= 0 /\ i < Len(s) THEN s[i + 1] ELSE Undef

\* n holes, read back as undefined
Holes(n) == [k \in 1..n |-> Undef]

\* s[i] = v: a write past the end extends the array, a write at a negative
\* index sets a property and leaves the elements alone
Put(s, i, v) ==
  IF i < 0 THEN s
  ELSE IF i < Len(s) THEN [s EXCEPT ![i + 1] = v]
  ELSE s \o Holes(i - Len(s)) \o <<v>>

\* s.splice(i, 1): a negative start counts from the end
SpliceStart(s, i) == IF i < 0 THEN Max(Len(s) + i, 0) ELSE Min(i, Len(s))
Splice1(s, i) ==
  LET k == SpliceStart(s, i)
  IN  IF k >= Len(s) THEN s
      ELSE SubSeq(s, 1, k) \o SubSeq(s, k + 2, Len(s))

\* s.includes(v)
Includes(s, v) == \E k \in 1..Len(s) : s[k] = v

\* Arrays.index(items, item) / Array.prototype.indexOf
IndexOf(s, x) ==
  IF Includes(s, x) THEN (CHOOSE k \in 1..Len(s) : s[k] = x /\ \A j \in 1..(k - 1) : s[j] # x) - 1
  ELSE -1

\* Arrays.swap(items, from, to): exchange the two entries
Swap(s, from, to) == [k \in 1..Len(s) |->
  IF k = from + 1 THEN s[to + 1] ELSE IF k = to + 1 THEN s[from + 1] ELSE s[k]]

\* Value.array(data): element-wise pass through, holes kept
ValueArray(data) == [k \in 1..Len(data) |-> data[k]]

\* ------------------------------------------------------ schema and options
Shapes == {"none", "single", "tuple"}

\* The schemas explored: every shape, with maxItems / minItems / required /
\* default varied one keyword group at a time. `required` is options.required
\* (it decides field.required), `default` and `enum` belong to the item schema.
Schemas ==
  {c \in [shape : Shapes, additionalItems : BOOLEAN, uniqueItems : BOOLEAN,
          enum : BOOLEAN, default : {Undef, DefaultVal},
          maxItems : {NONE, 0, 1}, minItems : {NONE, 0, 2},
          required : BOOLEAN] :
     /\ c.additionalItems => c.shape = "tuple"
     /\ c.enum => c.shape = "single"
     /\ c.uniqueItems => c.shape = "single"
     /\ c.default = DefaultVal =>
          c.shape # "none" /\ ~c.enum /\ ~c.uniqueItems /\ c.maxItems = NONE
          /\ c.minItems = NONE /\ ~c.required
     /\ c.maxItems = 0 => c.minItems = NONE /\ ~c.required
     /\ c.required => c.minItems # 2 /\ c.maxItems = NONE
     /\ c.enum /\ ~c.uniqueItems => c.maxItems = NONE /\ c.minItems = NONE /\ ~c.required}

\* options.model: the first n entries of a, b, a, b, ...
ModelOf(n) == [k \in 1..n |-> IF k % 2 = 1 THEN "a" ELSE "b"]
Models == {ModelOf(n) : n \in 0..MaxModel}

VARIABLES
  schema,           \* this.schema (read-only input)
  optModel,         \* this.options.model
  unregistered,     \* the kinds no parser is registered for (Parser.register)
  pc,               \* "new" after construction, "parsed" after parse()
  items,            \* this.items: item schemas
  additionalItems,  \* this.additionalItems is set
  minItems, maxItems, max, count,
  sortable, uniqueItems,       \* this.field.sortable / this.field.uniqueItems
  model, rawValue,
  childrenParsers,  \* roster of child parsers (with their field), in construction order
  childrenList,     \* this.field.childrenList: roster positions of the rendered fields
  children,         \* this.field.children: index map, as the sequence of its values
  uid,              \* number of UniqueId.get calls so far
  ops,              \* number of operations performed after parse()
  last              \* the operation just performed, its result and its render request

\* ObjectParser (src/unnamed/part_000): one object parser and its children
VARIABLES
  objSchema,        \* this.schema of the object: properties, dependencies, required
  objPc,            \* "idle" (no object parser), "new", "parsed"
  properties,       \* this.properties: property keys, in insertion order
  dependencies,     \* this.dependencies: <<[key, props]>>, in insertion order
  objModel,         \* this.model: key -> value
  objParsers,       \* this.childrenParsers: key -> the child's model, required and key
  objChildren,      \* this.field.children: the keys of the child fields, in order
  objRender,        \* the fields of the last requestRender(fields) call
  threw,            \* the last operation ended in a TypeError
  objLog,           \* what the last child onChange did, in order
  objOrder          \* this.field.descriptor.order: whether it is an array, and its entries

\* NumberParser / IntegerParser (src/src/parsers/NumberParser.ts, part_000)
VARIABLES
  numKind,          \* "idle" (no number parser), "number", "integer"
  numSchema,        \* this.schema: minimum, maximum, multipleOf, exclusive bounds
  numPc,            \* "new", "parsed"
  numRaw,           \* this.rawValue
  numModel,         \* this.model
  numAttrs,         \* this.attrs
  numValue          \* this.field.value

\* FormSchema component (src/src/components/FormSchema.ts)
VARIABLES
  formPc,           \* "idle" (no component), "mounted"
  formSchema,       \* the schema prop: its version, and whether the factory has a parser for it
  validator,        \* the validator prop is a function (TRUE) or null (FALSE)
  ready,            \* this.ready
  formParser,       \* this.parser: NONE for null, else the input event of its parse()
  ticks,            \* the $nextTick callbacks of emitInputEvent not yet run
  promises,         \* the validator promises not yet settled, by input event
  inputs            \* the `input` events emitted so far, in order

arrayVars == <<schema, optModel, pc, items, additionalItems, minItems, maxItems,
               max, count, sortable, uniqueItems, model, rawValue, childrenParsers,
               childrenList, children>>
objectVars == <<objSchema, objPc, properties, dependencies, objModel, objParsers,
                objChildren, objRender, threw, objLog, objOrder>>
numberVars == <<numKind, numSchema, numPc, numRaw, numModel, numAttrs, numValue>>

formVars == <<formPc, formSchema, validator, ready, formParser, ticks, promises, inputs>>

vars == <<unregistered, uid, ops, last, arrayVars, objectVars, numberVars, formVars>>

\* get initialValue(): a copy of options.model (schema.default is not modelled)
InitialValue == optModel

Op(name, ret, render) == [op |-> name, ret |-> ret, render |-> render]

\* The parser's mutable fields as one record, so that a method is an operator
\* from the parser before the call to the parser after it.
Self ==
  [items |-> items, additionalItems |-> additionalItems, minItems |-> minItems,
   maxItems |-> maxItems, max |-> max, count |-> count, sortable |-> sortable,
   uniqueItems |-> uniqueItems, model |-> model, rawValue |-> rawValue,
   childrenParsers |-> childrenParsers, childrenList |-> childrenList,
   children |-> children, uid |-> uid]

Assign(p) ==
  /\ items' = p.items
  /\ additionalItems' = p.additionalItems
  /\ minItems' = p.minItems
  /\ maxItems' = p.maxItems
  /\ max' = p.max
  /\ count' = p.count
  /\ sortable' = p.sortable
  /\ uniqueItems' = p.uniqueItems
  /\ model' = p.model
  /\ rawValue' = p.rawValue
  /\ childrenParsers' = p.childrenParsers
  /\ childrenList' = p.childrenList
  /\ children' = p.children
  /\ uid' = p.uid

\* JavaScript truthiness of an optional number: undefined and 0 are falsy
Truthy(n) == n # NONE /\ n # 0

\* an item schema: its default and enum keywords, and the kind SetParser.kind
\* resolves for it (each tuple position is given a kind of its own)
ItemSchemaOf(kind) == [default |-> schema.default, enum |-> schema.enum, kind |-> kind]

\* schema.items when it is a single schema, and schema.additionalItems
ItemSchema == ItemSchemaOf("items")
AdditionalSchema == ItemSchemaOf("additional")

\* ------------------------------------------------------------- ArrayParser
\* setValue(value): rawValue = value; model = parseValue(rawValue)
SetValue(p, value) == [p EXCEPT !.rawValue = value, !.model = ValueArray(value)]

\* setIndexValue(index, value)
SetIndexValue(p, index, value) == SetValue(p, Put(p.rawValue, index, value))

\* clearModel()
ClearModel(p) ==
  [p EXCEPT !.rawValue = [k \in 1..Len(p.rawValue) |-> Undef], !.model = <<>>]

\* a limit that is always the number of item schemas
LimitItems(p) == Len(p.items)

\* get limit()
Limit(p) ==
  IF p.uniqueItems \/ Len(p.items) = 0 THEN Len(p.items)
  ELSE IF p.count < p.minItems \/ schema.shape # "tuple" THEN p.count
  ELSE IF p.count < Len(p.items) THEN p.count ELSE Len(p.items)

\* parseCheckboxField(parser, itemModel): the model the checkbox child starts with
CheckboxModel(itemModel) ==
  IF Includes(InitialValue, itemModel) THEN itemModel ELSE Undef

\* SetParser.get(options, this): null when no parser is registered for the
\* kind (a unique-items child is always asked for as a 'boolean')
FactoryGet(p, itemSchema) ==
  (IF p.uniqueItems THEN "boolean" ELSE itemSchema.kind) \notin unregistered

\* getFieldItem(itemSchema, index): no parser, no field and no roster entry
GetFieldItem(p, itemSchema, index) ==
  LET itemModel == IF Get(p.model, index) = Undef THEN itemSchema.default
                   ELSE Get(p.model, index)
      raw1 == IF Len(p.rawValue) <= index THEN Append(p.rawValue, Undef)
              ELSE p.rawValue
      childModel == IF p.uniqueItems THEN CheckboxModel(itemModel) ELSE itemModel
      parser == [index |-> index, key |-> 0, init |-> itemModel, model |-> childModel]
  IN  IF FactoryGet(p, itemSchema)
      THEN [p EXCEPT !.childrenParsers = Append(@, parser),
                     !.childrenList = Append(@, Len(p.childrenParsers)),
                     !.rawValue = Put(raw1, index, childModel)]
      ELSE [p EXCEPT !.rawValue = raw1]

\* getFieldIndex(index)
GetFieldIndex(p, index) ==
  LET itemSchema == IF schema.shape = "tuple" \/ p.uniqueItems
                    THEN p.items[index + 1] ELSE p.items[1]
  IN  GetFieldItem(p, itemSchema, index)

\* get children(): indices from..to-1, from the item schemas (additional =
\* FALSE) or from the additionalItems schema (additional = TRUE); the
\* fields collected so far are p.childrenList
RECURSIVE BuildChildren(_, _, _, _)
BuildChildren(p, from, to, additional) ==
  IF from >= to THEN p
  ELSE IF additional
  THEN LET q == GetFieldItem(p, AdditionalSchema, from)
       IN  IF FactoryGet(p, AdditionalSchema)
           THEN BuildChildren(q, from + 1, to, additional)
           ELSE q
  ELSE BuildChildren(GetFieldIndex(p, from), from + 1, to, additional)

Children(p) ==
  LET limit == Limit(p)
      fields == BuildChildren([p EXCEPT !.childrenList = <<>>], 0, limit, FALSE)
  IN  IF limit < p.count /\ p.additionalItems
      THEN BuildChildren(fields, limit, p.count, TRUE)
      ELSE fields

\* setCount(value)
SetCount(p, value) ==
  IF Truthy(p.maxItems) /\ value > p.maxItems THEN p
  ELSE LET q == Children([p EXCEPT !.count = value, !.childrenParsers = <<>>])
       IN  SetValue([q EXCEPT !.children = q.childrenList], q.rawValue)

\* parseUniqueItems()
EnumItems ==
  [k \in 1..Len(EnumVals) |-> [default |-> EnumVals[k], enum |-> FALSE, kind |-> "items"]]

UniqueModel(its, mdl) ==
  [k \in 1..Len(its) |-> IF Includes(mdl, its[k].default) THEN its[k].default ELSE Undef]

ParseUniqueItems(p) ==
  LET q == IF schema.uniqueItems /\ Len(p.items) = 1
           THEN IF p.items[1].enum
                THEN [p EXCEPT !.uniqueItems = TRUE, !.maxItems = Len(EnumVals),
                               !.count = Len(EnumVals), !.items = EnumItems,
                               !.max = Len(EnumItems)]
                ELSE [p EXCEPT !.max = IF Truthy(p.maxItems) THEN p.maxItems
                                       ELSE Len(p.items)]
           ELSE IF Truthy(p.maxItems) THEN [p EXCEPT !.max = p.maxItems]
           ELSE IF schema.shape = "tuple"
                THEN [p EXCEPT !.max = IF p.additionalItems THEN -1 ELSE Len(p.items)]
           ELSE [p EXCEPT !.max = -2]
  IN  IF q.uniqueItems THEN [q EXCEPT !.model = UniqueModel(q.items, q.model)] ELSE q

\* parse()
ParseItems(p) ==
  IF schema.shape = "tuple"
  THEN [p EXCEPT !.sortable = FALSE,
                 !.items = @ \o [k \in 1..Len(TupleItems) |-> ItemSchemaOf(TupleItems[k])],
                 !.additionalItems = IF schema.additionalItems THEN TRUE ELSE @]
  ELSE IF schema.shape = "single"
  THEN [p EXCEPT !.sortable = TRUE, !.items = Append(@, ItemSchema)]
  ELSE [p EXCEPT !.sortable = FALSE]

ParseBody(p) ==
  LET p1 == ParseItems(p)
      minI == IF Truthy(schema.minItems) THEN schema.minItems
              ELSE IF schema.required THEN 1 ELSE 0
      p2 == [p1 EXCEPT !.maxItems = schema.maxItems, !.minItems = minI,
                       !.count = IF minI > Len(p1.model) THEN minI ELSE Len(p1.model)]
      p3 == ParseUniqueItems(p2)
  IN  SetCount(p3, p3.count)

\* move(from, to): the parser after the call, and the field it returns
MoveOk(p, from, to) ==
  /\ from >= 0 /\ from < Len(p.childrenList)
  /\ to >= 0 /\ to < Len(p.childrenList)

\* move that swaps the rendered list and forgets the raw values
MoveBodyListOnly(p, from, to) ==
  IF MoveOk(p, from, to)
  THEN LET list == Swap(p.childrenList, from, to)
           f == list[from + 1]
           t == list[to + 1]
           keyed == [[p.childrenParsers EXCEPT ![f + 1].key = p.uid + 1]
                                        EXCEPT ![t + 1].key = p.uid + 2]
       IN  SetValue([p EXCEPT !.childrenList = list, !.childrenParsers = keyed,
                              !.uid = p.uid + 2],
                    p.rawValue)
  ELSE p

MoveBody(p, from, to) ==
  IF MoveOk(p, from, to)
  THEN LET list == Swap(p.childrenList, from, to)
           f == list[from + 1]
           t == list[to + 1]
           keyed == [[p.childrenParsers EXCEPT ![f + 1].key = p.uid + 1]
                                        EXCEPT ![t + 1].key = p.uid + 2]
       IN  SetValue([p EXCEPT !.childrenList = list, !.childrenParsers = keyed,
                              !.uid = p.uid + 2],
                    Swap(p.rawValue, from, to))
  ELSE p

MoveResult(p, from, to) ==
  IF MoveOk(p, from, to) THEN p.childrenList[from + 1] ELSE NONE

\* buttons.delete.trigger of the field at roster position f
DeleteIndex(p, f) == IndexOf(p.childrenList, f)

DeleteResult(p, f) ==
  LET k == SpliceStart(p.childrenList, DeleteIndex(p, f))
  IN  IF k < Len(p.childrenList) THEN p.childrenList[k + 1] ELSE NONE

\* delete that drops the last raw value instead of the one at the index
DeleteBodyLastRaw(p, f) ==
  LET index == DeleteIndex(p, f)
  IN  IF DeleteResult(p, f) # NONE
      THEN LET q == SetValue([p EXCEPT !.childrenList = Splice1(@, index)],
                             Splice1(p.rawValue, -1))
           IN  [q EXCEPT !.count = @ - 1]
      ELSE p

DeleteBody(p, f) ==
  LET index == DeleteIndex(p, f)
  IN  IF DeleteResult(p, f) # NONE
      THEN LET q == SetValue([p EXCEPT !.childrenList = Splice1(@, index)],
                             Splice1(p.rawValue, index))
           IN  [q EXCEPT !.count = @ - 1]
      ELSE p

\* an onChange that always looks the child up in the roster
ChildIndexRoster(p, f) == f

\* the child's onChange set in getFieldItem, after the child at roster
\* position f took the value v
ChildIndex(p, f) == IF p.sortable THEN f ELSE p.childrenParsers[f + 1].index

ChildChangeBody(p, f, v) ==
  SetIndexValue([p EXCEPT !.childrenParsers[f + 1].model = v], ChildIndex(p, f), v)

\* child parser reset() / clear(): back to its own initial value / empty
ResetChildren(p) ==
  [p EXCEPT !.childrenParsers =
     [k \in 1..Len(@) |-> [p.childrenParsers[k] EXCEPT !.model = p.childrenParsers[k].init]]]

ClearChildren(p) ==
  [p EXCEPT !.childrenParsers =
     [k \in 1..Len(@) |-> [p.childrenParsers[k] EXCEPT !.model = Undef]]]

\* reset(): clearModel, then setIndexValue for every entry of initialValue
RECURSIVE SetInitial(_, _)
SetInitial(p, index) ==
  IF index >= Len(InitialValue) THEN p
  ELSE SetInitial(SetIndexValue(p, index, InitialValue[index + 1]), index + 1)

ResetBody(p) == ResetChildren(SetInitial(ClearModel(p), 0))

\* clear()
ClearBody(p) == ClearChildren(ClearModel(p))

\* ------------------------------------------------------------ state machine
\* no array parser is constructed
ArrayIdle ==
  /\ schema = [shape |-> "none", additionalItems |-> FALSE, uniqueItems |-> FALSE,
               enum |-> FALSE, default |-> Undef, maxItems |-> NONE,
               minItems |-> NONE, required |-> FALSE]
  /\ optModel = <<>>
  /\ pc = "idle"
  /\ items = <<>>
  /\ additionalItems = FALSE
  /\ minItems = 0
  /\ maxItems = NONE
  /\ max = -1
  /\ count = 0
  /\ sortable = FALSE
  /\ uniqueItems = FALSE
  /\ model = <<>>
  /\ rawValue = <<>>
  /\ childrenParsers = <<>>
  /\ childrenList = <<>>
  /\ children = <<>>

\* a descriptor without an order list
NoOrder == [given |-> FALSE, list |-> <<>>]

\* no object parser and no number parser are constructed
ObjectIdle ==
  /\ objSchema = [properties |-> <<>>, dependencies |-> <<>>, form |-> "array",
                  required |-> {}]
  /\ objPc = "idle"
  /\ properties = <<>>
  /\ dependencies = <<>>
  /\ objModel = <<>>
  /\ objParsers = <<>>
  /\ objChildren = <<>>
  /\ objRender = <<>>
  /\ threw = FALSE
  /\ objLog = <<>>
  /\ objOrder = NoOrder

NumberIdle ==
  /\ numKind = "idle"
  /\ numSchema = <<>>
  /\ numPc = "new"
  /\ numRaw = Undef
  /\ numModel = Undef
  /\ numAttrs = <<>>
  /\ numValue = Undef

\* no form component is mounted
FormIdle ==
  /\ formPc = "idle"
  /\ formSchema = [version |-> 0, supported |-> FALSE]
  /\ validator = FALSE
  /\ ready = FALSE
  /\ formParser = NONE
  /\ ticks = 0
  /\ promises = {}
  /\ inputs = <<>>

\* The parser as constructed: rawValue is initialValue, model its coercion,
\* nothing parsed yet.
Constructed ==
  /\ pc = "new"
  /\ items = <<>>
  /\ additionalItems = FALSE
  /\ minItems = 0
  /\ maxItems = NONE
  /\ max = -1
  /\ count = 0
  /\ sortable = FALSE
  /\ uniqueItems = FALSE
  /\ model = ValueArray(InitialValue)
  /\ rawValue = InitialValue
  /\ childrenParsers = <<>>
  /\ childrenList = <<>>
  /\ children = <<>>
  /\ uid = 0
  /\ ops = 0
  /\ last = Op("new", NONE, FALSE)

\* every array schema and model, every kind registered
Init ==
  /\ schema \in Schemas
  /\ optModel \in Models
  /\ unregistered = {}
  /\ Constructed
  /\ ObjectIdle
  /\ NumberIdle
  /\ FormIdle

Fixed == UNCHANGED <<schema, optModel, unregistered, objectVars, numberVars, formVars>>

\* an operation on the parsed parser, counted
Step ==
  /\ pc = "parsed"
  /\ ops < MaxOps
  /\ ops' = ops + 1
  /\ UNCHANGED pc
  /\ Fixed

\* the fields currently rendered, by roster position
Rendered == {childrenList[k] : k \in 1..Len(childrenList)}

\* the values a child can take: a checkbox toggles between its item value
\* and undefined, any other child takes any value
ChangeVal == "c"
ChildValues(f) ==
  IF uniqueItems THEN {childrenParsers[f + 1].init, Undef} ELSE {ChangeVal, Undef}

Parse ==
  /\ pc = "new"
  /\ pc' = "parsed"
  /\ Assign(ParseBody(Self))
  /\ last' = Op("parse", NONE, FALSE)
  /\ UNCHANGED ops
  /\ Fixed

\* parse() called again on a parser that was already parsed
Reparse ==
  /\ pc = "parsed"
  /\ ops < MaxOps
  /\ ops' = ops + 1
  /\ Assign(ParseBody(Self))
  /\ last' = Op("reparse", NONE, FALSE)
  /\ UNCHANGED pc
  /\ Fixed

\* field.pushButton.trigger()
Push ==
  /\ Step
  /\ Assign(SetCount(Self, count + 1))
  /\ last' = Op("push", NONE, TRUE)

\* move(from, to), also reached through buttons.moveUp / moveDown
Move(from, to) ==
  /\ Step
  /\ Assign(MoveBody(Self, from, to))
  /\ last' = Op("move", MoveResult(Self, from, to), FALSE)

\* buttons.delete.trigger() of a rendered field
Delete(f) ==
  /\ Step
  /\ f \in Rendered
  /\ Assign(DeleteBody(Self, f))
  /\ last' = Op("delete", DeleteResult(Self, f), DeleteResult(Self, f) # NONE)

\* a rendered child commits the value v
ChildChange(f, v) ==
  /\ Step
  /\ f \in Rendered
  /\ v \in ChildValues(f)
  /\ Assign(ChildChangeBody(Self, f, v))
  /\ last' = Op("change", NONE, FALSE)

\* field.reset(): reset(), then requestRender()
Reset ==
  /\ Step
  /\ Assign(ResetBody(Self))
  /\ last' = Op("reset", NONE, TRUE)

\* clear()
Clear ==
  /\ Step
  /\ Assign(ClearBody(Self))
  /\ last' = Op("clear", NONE, FALSE)

\* the indices move is called with: every position, and one off either end
Indices == -1..Len(childrenList)

Next ==
  \/ Parse
  \/ Push
  \/ \E from, to \in Indices : Move(from, to)
  \/ \E f \in Rendered : Delete(f)
  \/ \E f \in Rendered : \E v \in ChildValues(f) : ChildChange(f, v)
  \/ Reset
  \/ Clear

Spec == Init /\ [][Next]_vars

\* parse, push, move and delete only: the operations that build and reorder
\* the children
NextReorder ==
  \/ Parse
  \/ Push
  \/ \E from, to \in Indices : Move(from, to)
  \/ \E f \in Rendered : Delete(f)

SpecReorder == Init /\ [][NextReorder]_vars

\* parse, push, move, delete and the value changes of the children
NextEdit ==
  \/ NextReorder
  \/ \E f \in Rendered : \E v \in ChildValues(f) : ChildChange(f, v)

SpecEdit == Init /\ [][NextEdit]_vars

\* parse() and repeated parse() on the same parser
NextReparse ==
  \/ Parse
  \/ Reparse

SpecReparse == Init /\ [][NextReparse]_vars

\* ------------------------------------------------------------ ObjectParser
\* The property keys a schema can speak of, in object-key order. A property
\* schema is identified by its key, which is also the kind the factory looks
\* up; a child value is either empty (undefined) or filled.
PropKeys == <<"a", "b", "c">>
Keys == {PropKeys[k] : k \in 1..Len(PropKeys)}
FilledVal == "v"

\* the dependents one dependencies entry can list: one other key, or both
Others(t) == SelectSeq(PropKeys, LAMBDA k : k # t)
DepLists(t) == {<<>>, Others(t)} \cup {<<k>> : k \in Keys \ {t}}

\* schema.dependencies as the list of its entries in key order; d[k] = <<>>
\* stands for "no entry for k"
DepEntries(d) ==
  LET ks == SelectSeq(PropKeys, LAMBDA k : d[k] # <<>>)
  IN  [i \in 1..Len(ks) |-> [key |-> ks[i], props |-> d[ks[i]]]]

\* The object schemas explored: properties a, b and possibly c; dependencies
\* in array form (key: [props]) or in schema form (key: {properties: props});
\* the schema form is explored where it adds a property.
DepMaps ==
  {d \in [Keys -> UNION {DepLists(t) : t \in Keys}] : \A t \in Keys : d[t] \in DepLists(t)}

ObjSchemas ==
  {[properties |-> ps, dependencies |-> DepEntries(d), form |-> f, required |-> r] :
     ps \in {<<"a", "b">>, PropKeys}, d \in DepMaps, f \in {"array"},
     r \in {{}, {"a"}, {"b"}}}
  \cup
  {[properties |-> <<"a", "b">>, dependencies |-> DepEntries(d), form |-> "schema",
    required |-> {}] : d \in DepMaps}

\* options.model of the object
ObjModels == [Keys -> {Undef, FilledVal}]

\* Parser.isEmpty(data): no value
IsEmpty(data) == data = Undef

\* the object parser's mutable state as one record
ObjSelf ==
  [model |-> objModel, parsers |-> objParsers, uid |-> uid, render |-> objRender,
   threw |-> FALSE, log |-> <<>>]

\* o after one more step of the running handler: "write" (this.model[key] =
\* value), "commit" (this.commit()), "propagate" (updateDependencies called),
\* "key" / "required" (field.key / field.required assigned), "render"
\* (requestRender called); arg lists the keys of the fields concerned
Logged(o, ev, arg) == [o EXCEPT !.log = Append(@, [ev |-> ev, arg |-> arg])]

ObjAssign(o) ==
  /\ objModel' = o.model
  /\ objParsers' = o.parsers
  /\ uid' = o.uid
  /\ objRender' = o.render
  /\ threw' = o.threw
  /\ objLog' = o.log

\* this.childrenParsers[key] is defined
HasParser(o, key) == key \in DOMAIN o.parsers

\* this.dependencies[key]: the position of the entry of key, 0 when undefined
DepIndex(deps, key) ==
  IF \E i \in 1..Len(deps) : deps[i].key = key
  THEN CHOOSE i \in 1..Len(deps) : deps[i].key = key
  ELSE 0

\* hasFilledDependency(key), from entry i on: Object.keys(...).some(...)
\* stops at the first entry that lists key and is filled; reading isEmpty
\* of a missing parser is a TypeError ("throw")
RECURSIVE HasFilledDependency(_, _, _)
HasFilledDependency(o, key, i) ==
  IF i > Len(dependencies) THEN "false"
  ELSE IF ~Includes(dependencies[i].props, key) THEN HasFilledDependency(o, key, i + 1)
  ELSE IF ~HasParser(o, dependencies[i].key) THEN "throw"
  ELSE IF ~IsEmpty(o.parsers[dependencies[i].key].model) THEN "true"
  ELSE HasFilledDependency(o, key, i + 1)

\* a setRequiredDependency that also empties the value of a field that is
\* no longer required
SetRequiredDependencyClearing(o, key, required) ==
  LET q == IF IsEmpty(o.model[key])
           THEN Logged([o EXCEPT !.parsers[key].key = o.uid + 1, !.uid = o.uid + 1],
                       "key", <<key>>)
           ELSE o
      r == IF required THEN q
           ELSE [q EXCEPT !.model[key] = Undef, !.parsers[key].model = Undef]
  IN  Logged([r EXCEPT !.parsers[key].required = required], "required", <<key>>)

\* setRequiredDependency(key, parser, required), parser defined
SetRequiredDependency(o, key, required) ==
  LET q == IF IsEmpty(o.model[key])
           THEN Logged([o EXCEPT !.parsers[key].key = o.uid + 1, !.uid = o.uid + 1],
                       "key", <<key>>)
           ELSE o
  IN  Logged([q EXCEPT !.parsers[key].required = required], "required", <<key>>)

\* a forEach that only ever raises the required flag of the dependents
RECURSIVE SetDependentsRaise(_, _, _, _)
SetDependentsRaise(o, props, i, isRequired) ==
  IF i > Len(props) THEN o
  ELSE IF ~HasParser(o, props[i]) THEN [o EXCEPT !.threw = TRUE]
  ELSE SetDependentsRaise(SetRequiredDependency(o, props[i], TRUE), props, i + 1,
                          isRequired)

\* the forEach of updateDependencies over dependencies[key], from entry i on
RECURSIVE SetDependents(_, _, _, _)
SetDependents(o, props, i, isRequired) ==
  IF i > Len(props) THEN o
  ELSE IF ~HasParser(o, props[i]) THEN [o EXCEPT !.threw = TRUE]
  ELSE SetDependents(SetRequiredDependency(o, props[i], isRequired), props, i + 1,
                     isRequired)

\* updateDependencies(key, parser)
UpdateDependencies(o, key) ==
  LET p == Logged(o, "propagate", <<key>>)
  IN  IF DepIndex(dependencies, key) = 0 THEN p
      ELSE LET props == dependencies[DepIndex(dependencies, key)].props
               isRequired == ~IsEmpty(p.parsers[key].model)
               filled == IF isRequired THEN "true" ELSE HasFilledDependency(p, key, 1)
           IN  IF filled = "throw" THEN [p EXCEPT !.threw = TRUE]
               ELSE LET o1 == SetRequiredDependency(p, key, filled = "true")
                        o2 == SetDependents(o1, props, 1, isRequired)
                    IN  IF o2.threw THEN o2
                        ELSE Logged([o2 EXCEPT !.render = <<key>> \o props],
                                    "render", <<key>> \o props)

\* this.model[key] = value, the child's own model being value already
WriteModel(o, key, value) ==
  Logged([o EXCEPT !.parsers[key].model = value, !.model[key] = value], "write", <<key>>)

\* this.commit(): the parser's own change notification
ObjCommit(o) == Logged(o, "commit", <<>>)

\* an onChange that propagates the dependencies before it commits
ObjChangeBodyLate(o, key, value) ==
  ObjCommit(UpdateDependencies(WriteModel(o, key, value), key))

\* the child's onChange set in get children(): model[key] = value, commit(),
\* updateDependencies(key, parser)
ObjChangeBody(o, key, value) ==
  UpdateDependencies(ObjCommit(WriteModel(o, key, value)), key)

\* parseDependencies(): the dependency map, and the properties map after
\* the schema-form entries merged their properties into it
ParseProperties(sch) ==
  LET listed == {k \in Keys : \E i \in 1..Len(sch.dependencies) :
                                Includes(sch.dependencies[i].props, k)}
      added == SelectSeq(PropKeys, LAMBDA k : k \in listed /\ ~Includes(sch.properties, k))
  IN  IF sch.form = "schema" THEN sch.properties \o added ELSE sch.properties

\* get propertiesList(): descriptor.order when it is an array, else the keys
\* of the properties map; when the list is shorter than the keys, the keys it
\* lacks are pushed onto it
PropertiesList(order, keys) ==
  LET list == IF order.given THEN order.list ELSE keys
  IN  IF Len(list) < Len(keys)
      THEN list \o SelectSeq(keys, LAMBDA k : ~Includes(list, k))
      ELSE list

\* descriptor.order after get propertiesList(): the pushes land in the
\* descriptor's own array
OrderAfter(order, keys) ==
  IF order.given THEN [order EXCEPT !.list = PropertiesList(order, keys)] ELSE order

\* get children() reads this.properties[key].default of a key the model
\* lacks: a TypeError for a key that is no property
UnknownKey(list, keys) == \E i \in 1..Len(list) : ~Includes(keys, list[i])

\* Parser.get(options, this) for the property key
ObjFactoryGet(key) == key \notin unregistered

\* get children(): one parser per property the factory knows
ObjChildrenParsers(props, sch, mdl) ==
  [k \in {props[i] : i \in 1..Len(props)} \ unregistered |->
     [model |-> mdl[k], required |-> k \in sch.required, key |-> 0]]

InitObject ==
  /\ objSchema \in ObjSchemas
  /\ objModel \in ObjModels
  /\ unregistered \in {{}, {"b"}, {"c"}}
  /\ objPc = "new"
  /\ properties = <<>>
  /\ dependencies = <<>>
  /\ objParsers = <<>>
  /\ objChildren = <<>>
  /\ objRender = <<>>
  /\ threw = FALSE
  /\ objLog = <<>>
  /\ objOrder = NoOrder
  /\ uid = 0
  /\ ops = 0
  /\ last = Op("new", NONE, FALSE)
  /\ ArrayIdle
  /\ NumberIdle
  /\ FormIdle

ObjFixed == UNCHANGED <<objSchema, unregistered, arrayVars, numberVars, formVars>>

\* schema.properties as parse() leaves it, props being this.properties after
\* parseDependencies(): this.properties is a spread copy, so the properties
\* that parseDependencies() adds stay out of schema.properties
SchemaPropertiesShared(sch, props) == props

SchemaProperties(sch, props) == sch.properties

\* parse()
ObjParse ==
  /\ objPc = "new"
  /\ objPc' = "parsed"
  /\ properties' = ParseProperties(objSchema)
  /\ dependencies' = objSchema.dependencies
  /\ objOrder' = OrderAfter(objOrder, properties')
  /\ LET list == PropertiesList(objOrder, properties')
     IN  IF UnknownKey(list, properties')
         THEN /\ threw' = TRUE
              /\ UNCHANGED <<objParsers, objChildren>>
         ELSE /\ threw' = threw
              /\ objParsers' = ObjChildrenParsers(list, objSchema, objModel)
              /\ objChildren' = SelectSeq(list, ObjFactoryGet)
  /\ last' = Op("parse", NONE, FALSE)
  /\ UNCHANGED <<objModel, objRender, objLog, uid, ops>>
  /\ objSchema' = [objSchema EXCEPT !.properties = SchemaProperties(objSchema, properties')]
  /\ UNCHANGED <<unregistered, arrayVars, numberVars, formVars>>

\* the child of property key commits value
ObjChange(key, value) ==
  /\ objPc = "parsed"
  /\ ops < MaxOps
  /\ HasParser(ObjSelf, key)
  /\ ops' = ops + 1
  /\ ObjAssign(ObjChangeBody(ObjSelf, key, value))
  /\ last' = Op("commit", NONE, objRender' # objRender)
  /\ UNCHANGED <<objPc, properties, dependencies, objChildren, objOrder>>
  /\ ObjFixed

NextObject ==
  \/ ObjParse
  \/ \E key \in Keys : \E value \in {Undef, FilledVal} : ObjChange(key, value)

SpecObject == InitObject /\ [][NextObject]_vars

\* ------------------------------------------------- descriptor.order lists
\* a key that is no property of any schema explored
UnknownProp == "x"

\* The order lists explored: none, empty, partial, complete, with a key twice,
\* with an unknown key.
Orders ==
  {NoOrder} \cup
  {[given |-> TRUE, list |-> l] :
     l \in {<<>>, <<"b">>, <<"b", "a">>, <<"c", "a">>, <<"c", "b", "a">>, <<"a", "a">>,
            <<"b", "b", "a">>, <<UnknownProp>>, <<"b", UnknownProp, "a">>}}

\* An object parser with an order list: at most one dependency entry, every
\* kind registered.
InitOrder ==
  /\ objSchema \in {sch \in ObjSchemas : sch.required = {} /\ Len(sch.dependencies) <= 1}
  /\ objModel \in {[k \in Keys |-> Undef], [k \in Keys |-> FilledVal]}
  /\ objOrder \in Orders
  /\ unregistered = {}
  /\ objPc = "new"
  /\ properties = <<>>
  /\ dependencies = <<>>
  /\ objParsers = <<>>
  /\ objChildren = <<>>
  /\ objRender = <<>>
  /\ threw = FALSE
  /\ objLog = <<>>
  /\ uid = 0
  /\ ops = 0
  /\ last = Op("new", NONE, FALSE)
  /\ ArrayIdle
  /\ NumberIdle
  /\ FormIdle

SpecOrder == InitOrder /\ [][NextObject]_vars

\* the array parser and the object parser, each from its own construction
NextSchema ==
  \/ Next
  \/ NextObject

SpecSchema == (Init \/ InitObject) /\ [][NextSchema]_vars

\* ------------------------------------------------------ JavaScript values
\* A value handed to a number parser: undefined, null, a boolean, a number,
\* NaN, +-Infinity or a string. A finite number is held in tenths (n = 15 is
\* 1.5), a string as the sequence of its characters.
Js(t, n, s) == [t |-> t, n |-> n, s |-> s]
Undefined == Js("undefined", 0, <<>>)
JsNull == Js("null", 0, <<>>)
JsBool(b) == Js("boolean", IF b THEN 1 ELSE 0, <<>>)
JsNum(n) == Js("number", n, <<>>)
JsNaN == Js("NaN", 0, <<>>)
JsInf(sign) == Js("Infinity", sign, <<>>)
JsStr(s) == Js("string", 0, s)

Digits == <<"0", "1", "2", "3", "4", "5", "6", "7", "8", "9">>
IsDigit(c) == Includes(Digits, c)
DigitVal(c) == IndexOf(Digits, c)
Abs(n) == IF n < 0 THEN -n ELSE n

RECURSIVE NatToChars(_)
NatToChars(n) ==
  IF n < 10 THEN <<Digits[n + 1]>>
  ELSE NatToChars(n \div 10) \o <<Digits[(n % 10) + 1]>>

\* Number.prototype.toString of a finite number
NumToChars(n) ==
  LET body == NatToChars(Abs(n) \div 10)
                \o (IF Abs(n) % 10 = 0 THEN <<>> ELSE <<".", Digits[(Abs(n) % 10) + 1]>>)
  IN  IF n < 0 THEN <<"-">> \o body ELSE body

InfinityChars == <<"I", "n", "f", "i", "n", "i", "t", "y">>

\* `${data}`: ToString
JsToString(v) ==
  CASE v.t = "undefined" -> <<"u", "n", "d", "e", "f", "i", "n", "e", "d">>
    [] v.t = "null" -> <<"n", "u", "l", "l">>
    [] v.t = "boolean" -> IF v.n = 1 THEN <<"t", "r", "u", "e">>
                          ELSE <<"f", "a", "l", "s", "e">>
    [] v.t = "number" -> NumToChars(v.n)
    [] v.t = "NaN" -> <<"N", "a", "N">>
    [] v.t = "Infinity" -> IF v.n < 0 THEN <<"-">> \o InfinityChars ELSE InfinityChars
    [] v.t = "string" -> v.s

\* white space stripped from the start and from both ends
RECURSIVE TrimLeft(_)
TrimLeft(s) == IF s # <<>> /\ Head(s) = " " THEN TrimLeft(Tail(s)) ELSE s
RECURSIVE TrimRight(_)
TrimRight(s) ==
  IF s # <<>> /\ s[Len(s)] = " " THEN TrimRight(SubSeq(s, 1, Len(s) - 1)) ELSE s
Trim(s) == TrimRight(TrimLeft(s))

\* the position after the run of digits of s that starts at position i
RECURSIVE ScanDigits(_, _)
ScanDigits(s, i) == IF i <= Len(s) /\ IsDigit(s[i]) THEN ScanDigits(s, i + 1) ELSE i

\* the number written by the digits s[i..j-1]
RECURSIVE DigitsValue(_, _, _)
DigitsValue(s, i, j) ==
  IF i >= j THEN 0 ELSE DigitsValue(s, i, j - 1) * 10 + DigitVal(s[j - 1])

\* the sign a numeric string starts with, and the position after it
SignOf(s) == IF s # <<>> /\ s[1] = "-" THEN -1 ELSE 1
AfterSign(s) == IF s # <<>> /\ (s[1] = "-" \/ s[1] = "+") THEN 2 ELSE 1

\* s has the characters of word from position i on
StartsWith(s, i, word) ==
  Len(s) >= i + Len(word) - 1 /\ SubSeq(s, i, i + Len(word) - 1) = word

\* parseInt(s, 10): the longest integer prefix, NaN when there is none
ParseInt(s) ==
  LET t == TrimLeft(s)
      i == AfterSign(t)
      j == ScanDigits(t, i)
  IN  IF j = i THEN JsNaN ELSE JsNum(SignOf(t) * DigitsValue(t, i, j) * 10)

\* the longest decimal literal t starts with: its value and the position
\* after it (end = 0 when there is none); the fraction is read to one digit
ScanNumber(t) ==
  LET i == AfterSign(t)
      j == ScanDigits(t, i)
      dot == j <= Len(t) /\ t[j] = "."
      k == IF dot THEN ScanDigits(t, j + 1) ELSE j
      frac == IF dot /\ k > j + 1 THEN DigitVal(t[j + 1]) ELSE 0
  IN  IF StartsWith(t, i, InfinityChars)
      THEN [end |-> i + Len(InfinityChars), val |-> JsInf(SignOf(t))]
      ELSE IF j = i /\ k <= j + 1 THEN [end |-> 0, val |-> JsNaN]
      ELSE [end |-> k, val |-> JsNum(SignOf(t) * (DigitsValue(t, i, j) * 10 + frac))]

\* parseFloat(s)
ParseFloat(s) == ScanNumber(TrimLeft(s)).val

\* Number(data): ToNumber
ToNumber(v) ==
  CASE v.t = "undefined" -> JsNaN
    [] v.t = "null" -> JsNum(0)
    [] v.t = "boolean" -> JsNum(v.n * 10)
    [] v.t = "string" ->
         LET t == Trim(v.s)
         IN  IF t = <<>> THEN JsNum(0)
             ELSE IF ScanNumber(t).end = Len(t) + 1 THEN ScanNumber(t).val
             ELSE JsNaN
    [] OTHER -> v

\* ------------------------------------------- NumberParser / IntegerParser
\* IntegerParser.parseValue(data)
IntegerParseValue(data) ==
  IF ToNumber(data).t = "NaN" THEN Undefined ELSE ParseInt(JsToString(data))

\* Value.number(data): parsed as floating point, undefined if not finite
ValueNumber(data) ==
  LET v == ParseFloat(JsToString(data))
  IN  IF v.t = "number" THEN v ELSE Undefined

\* this.parseValue(data) of the parser of the given kind
NumParseValue(kind, data) ==
  IF kind = "integer" THEN IntegerParseValue(data) ELSE ValueNumber(data)

\* Parser.isEmpty(data) on a number parser: no value
NumIsEmpty(data) == data = Undefined

\* a schema keyword that is not declared reads undefined
NumSchemaOf(minimum, maximum, multipleOf) ==
  [minimum |-> minimum, maximum |-> maximum, multipleOf |-> multipleOf,
   exclusiveMinimum |-> Undefined, exclusiveMaximum |-> Undefined]

\* a schema that declares exclusiveMinimum and / or exclusiveMaximum
NumSchemaEx(minimum, maximum, exclusiveMinimum, exclusiveMaximum) ==
  [NumSchemaOf(minimum, maximum, Undefined) EXCEPT
     !.exclusiveMinimum = exclusiveMinimum, !.exclusiveMaximum = exclusiveMaximum]

\* the schemas explored: no keyword, {minimum: 0, maximum: 10, multipleOf: 2},
\* {exclusiveMinimum: 0, exclusiveMaximum: 10}, one exclusive keyword beside
\* the inclusive keyword of the other side, and both kinds of keyword together
NumSchemas ==
  {NumSchemaOf(Undefined, Undefined, Undefined),
   NumSchemaOf(JsNum(0), JsNum(100), JsNum(20)),
   NumSchemaEx(Undefined, Undefined, JsNum(0), JsNum(100)),
   NumSchemaEx(Undefined, JsNum(100), JsNum(0), Undefined),
   NumSchemaEx(JsNum(0), Undefined, Undefined, JsNum(100)),
   NumSchemaEx(JsNum(0), JsNum(100), JsNum(20), JsNum(50))}

\* the values handed to the parser, as options.model and through setValue
NumInputs ==
  {Undefined, JsNull, JsBool(TRUE), JsBool(FALSE), JsNaN, JsInf(1), JsInf(-1)}
  \cup {JsNum(n) : n \in {-15, -10, 0, 5, 10, 15, 20, 30, 120}}
  \cup {JsStr(c) : c \in {<<>>, <<" ">>, <<"3">>, <<"1", "2">>, <<"-", "7">>,
                          <<"1", ".", "5">>, <<"1", "2", "p", "x">>, <<"a", "b", "c">>,
                          <<" ", "4", " ">>, <<".", "5">>, InfinityChars}}

\* attrs before parse(): no value property, nothing set
NoAttrs ==
  [value |-> "unset", min |-> Undefined, max |-> Undefined, step |-> Undefined,
   input |-> [min |-> Undefined, max |-> Undefined]]

\* x + d for a declared keyword x (d in tenths)
Offset(x, d) == JsNum(x.n + d)

\* parseExclusiveKeywords() that leaves the attributes as they are
NumberExclusiveNone(attrs, sch) == attrs

\* NumberParser.parseExclusiveKeywords(): this.attrs.min / max, off by 0.1
NumberExclusive(attrs, sch) ==
  [attrs EXCEPT
     !.min = IF sch.exclusiveMinimum # Undefined THEN Offset(sch.exclusiveMinimum, 1) ELSE @,
     !.max = IF sch.exclusiveMaximum # Undefined THEN Offset(sch.exclusiveMaximum, -1) ELSE @]

\* IntegerParser.parseExclusiveKeywords(): this.field.attrs.input.min / max,
\* off by 1
IntegerExclusive(attrs, sch) ==
  [attrs EXCEPT
     !.input.min = IF sch.exclusiveMinimum # Undefined
                   THEN Offset(sch.exclusiveMinimum, 10) ELSE @,
     !.input.max = IF sch.exclusiveMaximum # Undefined
                   THEN Offset(sch.exclusiveMaximum, -10) ELSE @]

\* parse(): the value getter, min / max / step, the exclusive keywords
NumParseAttrs(kind, attrs, sch) ==
  LET a == [attrs EXCEPT !.value = "getter", !.min = sch.minimum,
                         !.max = sch.maximum, !.step = sch.multipleOf]
  IN  IF kind = "integer" THEN IntegerExclusive(a, sch) ELSE NumberExclusive(a, sch)

\* reading attrs.value: the getter defined by parse() looks at the model
\* of the moment
AttrsValue ==
  IF numAttrs.value = "getter"
  THEN (IF NumIsEmpty(numModel) THEN Undefined ELSE JsStr(JsToString(numModel)))
  ELSE Undefined

\* The parser as constructed: rawValue is options.model, model its coercion.
InitNumber ==
  /\ numKind \in {"number", "integer"}
  /\ numSchema \in NumSchemas
  /\ numRaw \in NumInputs
  /\ numModel = NumParseValue(numKind, numRaw)
  /\ numPc = "new"
  /\ numAttrs = NoAttrs
  /\ numValue = Undefined
  /\ unregistered = {}
  /\ uid = 0
  /\ ops = 0
  /\ last = Op("new", NONE, FALSE)
  /\ ArrayIdle
  /\ ObjectIdle
  /\ FormIdle

NumFixed == UNCHANGED <<numKind, numSchema, unregistered, uid, arrayVars, objectVars,
                        formVars>>

\* parse(), ending in commit(): field.value takes the model
NumParse ==
  /\ numKind # "idle"
  /\ numPc = "new"
  /\ numPc' = "parsed"
  /\ numAttrs' = NumParseAttrs(numKind, numAttrs, numSchema)
  /\ numValue' = numModel
  /\ last' = Op("parse", NONE, FALSE)
  /\ UNCHANGED <<numRaw, numModel, ops>>
  /\ NumFixed

\* field.setValue(data): setValue(data), then commit()
NumSetValue(data) ==
  /\ numPc = "parsed"
  /\ ops < MaxOps
  /\ ops' = ops + 1
  /\ numRaw' = data
  /\ numModel' = NumParseValue(numKind, data)
  /\ numValue' = numModel'
  /\ last' = Op("setValue", NONE, FALSE)
  /\ UNCHANGED <<numPc, numAttrs>>
  /\ NumFixed

NextNumber ==
  \/ NumParse
  \/ \E data \in NumInputs : NumSetValue(data)

SpecNumber == InitNumber /\ [][NextNumber]_vars

\* --------------------------------------------------------------- FormSchema
\* The component holds the root parser. Parser.get(options) builds the parser
\* and parses it; the commit() that ends parse() calls options.onChange, which
\* is emitInputEvent. A schema the factory has no parser for gives null.

\* an `input` event: what caused it, the version of the schema prop the parser
\* that emits it was built for, and the validator call that goes with it ("none" when the validator
\* is not called, then "pending", then "accepted" or "rejected"); atEmit is
\* the state of that call at the $emit
InputEvent(cause, version, validation) ==
  [cause |-> cause, version |-> version, validation |-> validation,
   atEmit |-> validation]

\* an emitInputEvent that emits `input` twice for one call
EmitInputEventTwice(rdy, cause, version) ==
  LET called == rdy /\ validator
      id == Len(inputs) + 1
      event == InputEvent(cause, version, IF called THEN "pending" ELSE "none")
  IN  /\ promises' = IF called THEN promises \cup {id} ELSE promises
      /\ inputs' = inputs \o <<event, event>>
      /\ ticks' = ticks + 1

\* emitInputEvent(value, field), called by the parser of schema version
\* `version` and entered with this.ready = rdy: the validator is called when
\* ready and configured, `input` is emitted, a tick is asked
EmitInputEvent(rdy, cause, version) ==
  LET called == rdy /\ validator
      id == Len(inputs) + 1
  IN  /\ promises' = IF called THEN promises \cup {id} ELSE promises
      /\ inputs' = Append(inputs, InputEvent(cause, version,
                                               IF called THEN "pending" ELSE "none"))
      /\ ticks' = ticks + 1

\* Parser.get(options) for a schema: null, or a parser whose parse() commits
\* with this.ready = rdy
ParserGet(sch, rdy) ==
  IF sch.supported
  THEN /\ formParser' = Len(inputs) + 1
       /\ EmitInputEvent(rdy, "parse", sch.version)
  ELSE /\ formParser' = NONE
       /\ UNCHANGED <<promises, inputs, ticks>>

\* render(): nothing while the parser is null or ready is false
FormRender == IF formParser = NONE \/ ready = FALSE THEN "nothing" ELSE "form"

\* The component as created: both watchers are immediate, the schema watcher
\* clears ready and the options watcher builds the parser.
InitForm ==
  /\ formPc = "mounted"
  /\ validator \in BOOLEAN
  /\ formSchema \in [version : {0}, supported : BOOLEAN]
  /\ ready = FALSE
  /\ formParser = IF formSchema.supported THEN 1 ELSE NONE
  /\ inputs = IF formSchema.supported
              THEN <<[cause |-> "parse", version |-> 0, validation |-> "none",
                      atEmit |-> "none"]>>
              ELSE <<>>
  /\ ticks = IF formSchema.supported THEN 1 ELSE 0
  /\ promises = {}
  /\ unregistered = {}
  /\ uid = 0
  /\ ops = 0
  /\ last = Op("new", NONE, FALSE)
  /\ ArrayIdle
  /\ ObjectIdle
  /\ NumberIdle

FormFixed == UNCHANGED <<formPc, validator, unregistered, uid, arrayVars, objectVars,
                         numberVars>>

\* the schema prop changes: watch.schema clears ready, then watch.options
\* builds the parser of the new schema
SchemaChange(supported) ==
  /\ formPc = "mounted"
  /\ ops < MaxOps
  /\ ops' = ops + 1
  /\ formSchema' = [version |-> formSchema.version + 1, supported |-> supported]
  /\ ready' = FALSE
  /\ ParserGet(formSchema', FALSE)
  /\ last' = Op("schema", NONE, FALSE)
  /\ FormFixed

\* another prop of options changes (name, descriptor, ...): watch.options
\* builds a parser again, ready is left as it is
OptionsChange ==
  /\ formPc = "mounted"
  /\ ops < MaxOps
  /\ ops' = ops + 1
  /\ ParserGet(formSchema, ready)
  /\ last' = Op("options", NONE, FALSE)
  /\ UNCHANGED <<formSchema, ready>>
  /\ FormFixed

\* a field of the rendered form changes: its commit() reaches the root
\* parser's options.onChange
FieldChange ==
  /\ formPc = "mounted"
  /\ FormRender = "form"
  /\ ops < MaxOps
  /\ ops' = ops + 1
  /\ EmitInputEvent(ready, "change", formSchema.version)
  /\ last' = Op("change", NONE, FALSE)
  /\ UNCHANGED <<formSchema, ready, formParser>>
  /\ FormFixed

\* a $nextTick callback of emitInputEvent runs
Tick ==
  /\ formPc = "mounted"
  /\ ticks > 0
  /\ ticks' = ticks - 1
  /\ ready' = TRUE
  /\ last' = Op("tick", NONE, FALSE)
  /\ UNCHANGED <<formSchema, formParser, promises, inputs, ops>>
  /\ FormFixed

\* the validator promise of input event id settles with result
Settle(id, result) ==
  /\ formPc = "mounted"
  /\ id \in promises
  /\ promises' = promises \ {id}
  /\ inputs' = [inputs EXCEPT ![id].validation = IF result THEN "accepted" ELSE "rejected"]
  /\ ready' = IF result THEN TRUE ELSE ready
  /\ last' = Op("settle", NONE, FALSE)
  /\ UNCHANGED <<formSchema, formParser, ticks, ops>>
  /\ FormFixed

NextForm ==
  \/ \E supported \in BOOLEAN : SchemaChange(supported)
  \/ OptionsChange
  \/ FieldChange
  \/ Tick
  \/ \E id \in promises : \E result \in BOOLEAN : Settle(id, result)

SpecForm == InitForm /\ [][NextForm]_vars

\* a value change on its way up: the object parser that receives a child's
\* change, and the component that receives the root parser's change
NextChange ==
  \/ NextObject
  \/ NextForm

SpecChange == (InitObject \/ InitForm) /\ [][NextChange]_vars

\* --------------------------------------------- parsers the factory lacks
\* Array schemas with item schemas and no maxItems, and object schemas, built
\* while the factory has no parser for one of the kinds they can need.
ArrayUnregistered == {{"first"}, {"second"}, {"additional"}, {"items"}}

InitFactory ==
  \/ /\ schema \in {c \in Schemas : c.shape # "none" /\ c.maxItems = NONE}
     /\ optModel \in Models
     /\ unregistered \in ArrayUnregistered
     /\ Constructed
     /\ ObjectIdle
     /\ NumberIdle
     /\ FormIdle
  \/ /\ InitObject
     /\ unregistered # {}

NextFactory ==
  \/ Parse
  \/ Push
  \/ \E f \in Rendered : \E v \in ChildValues(f) : ChildChange(f, v)
  \/ ObjParse
  \/ \E key \in Keys : \E value \in {Undef, FilledVal} : ObjChange(key, value)

SpecFactory == InitFactory /\ [][NextFactory]_vars

\* ------------------------------------------------------------------ claims
Parsed == pc = "parsed"

\* the field at position k (0-based) of the rendered list, and its parser
FieldAt(k) == childrenList[k + 1]
ParserOf(f) == childrenParsers[f + 1]
Positions == 0..(Len(childrenList) - 1)

\* C1: in a sortable array, after parse and any moves, deletes and pushes,
\* the roster of child parsers, rawValue, field.childrenList and the
\* field.children index map are index-aligned: at every position i the i-th
\* parser of the roster owns the i-th rendered field, field.children[i] is
\* that field, and rawValue[i] is that child's value.
C1_RosterAligned ==
  (Parsed /\ sortable) =>
    /\ Len(childrenParsers) = Len(childrenList)
    /\ Len(children) = Len(childrenList)
    /\ \A i \in Positions :
         /\ FieldAt(i) = i
         /\ children[i + 1] = FieldAt(i)
         /\ Get(rawValue, i) = ParserOf(FieldAt(i)).model

\* C2: in every state after parse, rawValue.length >= count.
C2_RawValueCoversCount == Parsed => Len(rawValue) >= count

\* C3: in every state after parse, 0 <= count, and count <= maxItems when
\* the schema declares maxItems.
C3_CountBounded ==
  Parsed => /\ 0 <= count
            /\ schema.maxItems # NONE => count <= schema.maxItems

\* C4: triggering pushButton when count === maxItems changes neither count
\* nor the children nor rawValue.
C4_PushAtMaxItemsNoop ==
  [][(maxItems # NONE /\ count = maxItems /\ Push) =>
       UNCHANGED <<count, childrenList, children, childrenParsers, rawValue>>]_vars

\* C5: triggering pushButton while it is disabled because count === max
\* does not increase count.
C5_PushAtMaxNoop ==
  [][(count = max /\ Push) => count' = count]_vars

\* C6: move(from, to) on a non-sortable array returns undefined and leaves
\* childrenList, rawValue, model and the children's keys unchanged, for all
\* indices.
C6_MoveNonSortableNoop ==
  [][\A from, to \in Indices :
       (last'.op = "move" /\ ~sortable /\ Move(from, to)) =>
         /\ last'.ret = NONE
         /\ UNCHANGED <<childrenList, rawValue, model, childrenParsers>>]_vars

\* old and new agree except that positions from and to are exchanged
Exchanged(old, new, from, to) ==
  /\ Len(new) = Len(old)
  /\ Get(new, from) = Get(old, to)
  /\ Get(new, to) = Get(old, from)
  /\ \A k \in 0..(Len(old) - 1) : k \notin {from, to} => Get(new, k) = Get(old, k)

\* both indices address rendered children: the move exchanges
C7_InRange ==
  \A from, to \in Positions :
    (last'.ret = FieldAt(from) /\ Move(from, to)) =>
      /\ Exchanged(childrenList, childrenList', from, to)
      /\ Exchanged(rawValue, rawValue', from, to)
      /\ \A f \in {FieldAt(from), FieldAt(to)} :
           childrenParsers'[f + 1].key # childrenParsers[f + 1].key

\* an index is out of range: undefined is returned and nothing changes
\* (Move(from, to) => Q, written Q \/ ~Move(from, to))
C7_OutOfRange ==
  \/ /\ last'.ret = NONE
     /\ UNCHANGED <<childrenList, rawValue, model, childrenParsers, children, count>>
  \/ \A from, to \in Indices :
       (from \in Positions /\ to \in Positions) \/ ~Move(from, to)

\* C7: on a sortable array, move(from, to) with both indices addressing
\* rendered children exchanges positions from and to of childrenList and of
\* rawValue, leaves every other position alone and gives both moved fields
\* a new key; with an index out of range it returns undefined and changes
\* nothing.
C7_MoveExchanges ==
  [][(last'.op = "move" /\ sortable) => (C7_InRange /\ C7_OutOfRange)]_vars

\* a move of two different rendered children of a sortable array took place
C7_Witness ==
  /\ sortable
  /\ last.op = "move"
  /\ last.ret # NONE
  /\ Len(childrenList) >= 2
  /\ childrenList[1] > childrenList[2]
  /\ Get(rawValue, 0) # Get(rawValue, 1)

\* C8: triggering the delete button of an item of a non-sortable array
\* removes no child and leaves rawValue and count unchanged.
C8_DeleteNonSortableNoop ==
  [][\A f \in Rendered :
       (last'.op = "delete" /\ ~sortable /\ Delete(f)) => UNCHANGED <<childrenList, rawValue, count>>]_vars

\* new is old without its entry at position i, the rest in order
Removed(old, new, i) ==
  /\ Len(new) = Len(old) - 1
  /\ \A k \in 0..(Len(new) - 1) : Get(new, k) = Get(old, IF k < i THEN k ELSE k + 1)

\* C9: on a sortable array, delete on the child at position i removes
\* exactly that child from childrenList and exactly entry i from rawValue,
\* decrements count, keeps the order of the remaining items and requests a
\* render.
C9_DeleteRemovesOne ==
  [][\A i \in Positions :
       (last'.op = "delete" /\ sortable /\ Delete(FieldAt(i))) =>
         /\ Removed(childrenList, childrenList', i)
         /\ i < Len(rawValue)
         /\ Removed(rawValue, rawValue', i)
         /\ count' = count - 1
         /\ last'.render]_vars

\* a child built before the last rendered one has been deleted from a
\* sortable array
C9_Witness ==
  /\ sortable
  /\ last.op = "delete"
  /\ last.ret # NONE
  /\ Len(childrenList) >= 1
  /\ last.ret < childrenList[Len(childrenList)]

\* C10: after reset(), model and rawValue equal initialValue, whatever
\* happened before.
C10_ResetRestoresInitial ==
  last.op = "reset" => model = InitialValue /\ rawValue = InitialValue

\* ----------------------------------------------------- claims: ObjectParser
ObjParsed == objPc = "parsed"

\* every key the dependency map speaks of has a child parser
DepsResolved ==
  \A i \in 1..Len(dependencies) :
    /\ HasParser(ObjSelf, dependencies[i].key)
    /\ \A j \in 1..Len(dependencies[i].props) : HasParser(ObjSelf, dependencies[i].props[j])

\* the keys whose entry lists d as a dependent
TriggersOf(d) ==
  {dependencies[i].key : i \in {j \in 1..Len(dependencies) : Includes(dependencies[j].props, d)}}

\* C11: when t is the only key that lists d as a dependent, a commit that
\* sets t to a non-empty value leaves d's field required, and a commit that
\* clears t leaves d's field not required.
C11_DependentFollowsTrigger ==
  [][\A t \in Keys : \A d \in Keys : \A v \in {Undef, FilledVal} :
       (DepsResolved /\ TriggersOf(d) = {t} /\ ObjChange(t, v))
         => objParsers'[d].required = (v # Undef)]_vars

\* a dependent with a single trigger is required after its trigger was filled
C11_Witness ==
  /\ ObjParsed /\ last.op = "commit" /\ DepsResolved
  /\ \E t \in Keys : \E d \in Keys \ objSchema.required :
       /\ TriggersOf(d) = {t}
       /\ DepIndex(dependencies, d) = 0
       /\ objParsers[t].model = FilledVal
       /\ objParsers[d].required

\* C12: after every commit to a triggering property, each of its dependents
\* d is required if and only if at least one property that lists d as a
\* dependent is non-empty.
C12_RequiredIffAnyTriggerFilled ==
  [][\A t \in Keys : \A d \in Keys : \A v \in {Undef, FilledVal} :
       (DepsResolved /\ t \in TriggersOf(d) /\ ObjChange(t, v))
         => (objParsers'[d].required
               <=> \E k \in TriggersOf(d) : ~IsEmpty(objParsers'[k].model))]_vars

\* C13: a commit never fails on a key of the dependencies keyword that has
\* no child parser: no operation ends in a TypeError.
C13_MissingParserSkipped == ~threw

\* the kind of the item schema used at index i, and the indices of 0..count-1
\* that have an item schema at all
KindAt(i) ==
  IF uniqueItems THEN "boolean"
  ELSE IF schema.shape = "tuple"
  THEN (IF i < Len(items) THEN items[i + 1].kind ELSE "additional")
  ELSE "items"
Slots ==
  IF uniqueItems THEN 0..(Len(items) - 1)
  ELSE {i \in 0..(count - 1) : schema.shape # "tuple" \/ i < Len(items) \/ additionalItems}

\* C14: when the factory has no parser for a child schema, that field is
\* omitted and the others are built: the object has a child for exactly the
\* other properties, in order; the array has a child for exactly the other
\* indices, in order, and each child's value sits at its own rawValue index.
C14_NullParserOmitted ==
  /\ ObjParsed =>
       /\ DOMAIN objParsers = {properties[i] : i \in 1..Len(properties)} \ unregistered
       /\ Len(objChildren) = Cardinality(DOMAIN objParsers)
       /\ \A i \in 1..Len(objChildren) : objChildren[i] \in DOMAIN objParsers
       /\ \A i, j \in 1..Len(objChildren) :
            i < j => IndexOf(properties, objChildren[i]) < IndexOf(properties, objChildren[j])
  /\ Parsed =>
       /\ {childrenParsers[k].index : k \in 1..Len(childrenParsers)}
            = {i \in Slots : KindAt(i) \notin unregistered}
       /\ childrenList = [k \in 1..Len(childrenParsers) |-> k - 1]
       /\ \A k \in 1..Len(childrenParsers) :
            /\ k > 1 => childrenParsers[k - 1].index < childrenParsers[k].index
            /\ Get(rawValue, childrenParsers[k].index) = childrenParsers[k].model

\* a tuple whose first item has no parser: the child built for index 1 took
\* a new value
C14_Witness ==
  /\ Parsed /\ unregistered = {"first"} /\ last.op = "change"
  /\ Len(childrenParsers) >= 1
  /\ childrenParsers[1].index = 1
  /\ childrenParsers[1].model = ChangeVal

\* ------------------------------------------- claims: ArrayParser, continued
\* the checkbox child at position i is checked
Checked(i) == ~IsEmpty(childrenParsers[i + 1].model)

C15_Pinned ==
  (Parsed /\ uniqueItems) =>
    /\ Len(childrenList) = Len(EnumVals)
    /\ Len(childrenParsers) = Len(EnumVals)
    /\ count = Len(EnumVals)
    /\ max = Len(EnumVals)
    /\ Len(model) = Len(EnumVals)
    /\ \A i \in 0..(Len(EnumVals) - 1) :
         Get(model, i) = IF Checked(i) THEN EnumVals[i + 1] ELSE Undef

C15_ToggleOne ==
  \A f \in Rendered : \A v \in ChildValues(f) :
    (uniqueItems /\ ChildChange(f, v)) =>
      /\ Len(model') = Len(model)
      /\ \A i \in 0..(Len(model) - 1) : i # f => Get(model', i) = Get(model, i)

\* C15: a unique-items array over enum [v1..vN] has, in every state after
\* parse(), exactly N checkbox children, count = N, max = N and a model of
\* length N whose entry i is vi when child i is checked and undefined when
\* it is not; toggling child i changes model[i] only.
C15_CheckboxGroup == []C15_Pinned /\ [][C15_ToggleOne]_vars

\* C16: a unique-items (checkbox group) array is not sortable, so that its
\* move and delete buttons are disabled, and no move, delete or push
\* changes childrenList, rawValue or count.
C16_UniqueNotReordered ==
  [][/\ uniqueItems' => ~sortable'
     /\ (uniqueItems /\ last'.op \in {"move", "delete", "push"})
          => UNCHANGED <<childrenList, rawValue, count>>]_vars

\* C17: after parse(), minItems is schema.minItems whenever the schema
\* declares it (an explicit 0 included), else 1 for a required field, else 0.
C17_MinItemsDefault ==
  Parsed => minItems = IF schema.minItems # NONE THEN schema.minItems
                       ELSE IF schema.required THEN 1 ELSE 0

\* items is a single schema and the array is not a checkbox group
Homogeneous == schema.shape = "single" /\ ~uniqueItems

NumParsed == numPc = "parsed"

\* data is a finite number, or a string that writes one
Numeric(data) ==
  \/ data.t = "number"
  \/ data.t = "string" /\ Trim(data.s) # <<>> /\ ToNumber(data).t = "number"

\* C19: IntegerParser.parseValue gives an integer for every finite numeric
\* input and undefined (never NaN) for every other input: after each
\* coercion of rawValue the model of an integer parser is one or the other.
C19_IntegerOrUndefined ==
  (NumParsed /\ numKind = "integer") =>
    IF Numeric(numRaw) THEN numModel.t = "number" /\ numModel.n % 10 = 0
    ELSE numModel = Undefined

\* C20: after parse() and after every later change, the model is empty or a
\* finite number, attrs.value is undefined when it is empty and its decimal
\* string otherwise, and field.value is the model.
C20_ValueFollowsModel ==
  NumParsed =>
    /\ numValue = numModel
    /\ \/ numModel = Undefined /\ AttrsValue = Undefined
       \/ numModel.t = "number" /\ AttrsValue = JsStr(NumToChars(numModel.n))

\* ------------------------------------------------------------------ C21
\* C21: for a number parser, after parse(), step is schema.multipleOf, min is
\* exclusiveMinimum + 0.1 when the schema declares exclusiveMinimum and
\* schema.minimum otherwise, max is exclusiveMaximum - 0.1 when the schema
\* declares exclusiveMaximum and schema.maximum otherwise.
C21_NumberBounds ==
  (NumParsed /\ numKind = "number") =>
    /\ numAttrs.step = numSchema.multipleOf
    /\ numAttrs.min = IF numSchema.exclusiveMinimum # Undefined
                      THEN JsNum(numSchema.exclusiveMinimum.n + 1)
                      ELSE numSchema.minimum
    /\ numAttrs.max = IF numSchema.exclusiveMaximum # Undefined
                      THEN JsNum(numSchema.exclusiveMaximum.n - 1)
                      ELSE numSchema.maximum

\* a parsed number parser whose schema declares minimum, maximum and both
\* exclusive keywords
C21_Witness ==
  /\ NumParsed
  /\ numKind = "number"
  /\ numSchema.minimum # Undefined
  /\ numSchema.exclusiveMinimum # Undefined
  /\ numSchema.exclusiveMaximum # Undefined
  /\ numAttrs.min = JsNum(21)
  /\ numAttrs.max = JsNum(49)

\* ------------------------------------------------------------------ C22
\* C22: for an integer parser, after parse(), the attributes that carry min and
\* max from minimum and maximum have min = exclusiveMinimum + 1 when the schema
\* declares exclusiveMinimum and max = exclusiveMaximum - 1 when it declares
\* exclusiveMaximum; without the exclusive keywords min = minimum and
\* max = maximum.
C22_IntegerBounds ==
  (NumParsed /\ numKind = "integer") =>
    /\ numAttrs.min = IF numSchema.exclusiveMinimum # Undefined
                      THEN JsNum(numSchema.exclusiveMinimum.n + 10)
                      ELSE numSchema.minimum
    /\ numAttrs.max = IF numSchema.exclusiveMaximum # Undefined
                      THEN JsNum(numSchema.exclusiveMaximum.n - 10)
                      ELSE numSchema.maximum

\* ------------------------------------------------------------------ C23
\* C23: with a validator configured, every `input` event caused by a change
\* is emitted after the validator call on the changed field has completed and
\* accepted the change, and no `input` event exists for a change the validator
\* rejects.
C23_ValidatedBeforeInput ==
  validator =>
    \A i \in DOMAIN inputs :
      inputs[i].cause = "change" =>
        inputs[i].atEmit = "accepted" /\ inputs[i].validation # "rejected"

\* ------------------------------------------------------------------ C24
\* the parser built for the schema of the moment has emitted an `input` event
FreshInput ==
  \E i \in DOMAIN inputs :
    inputs[i].cause = "parse" /\ inputs[i].version = formSchema.version

\* C24: the form renders nothing while the parser is null or ready is false; a
\* change of the schema sets ready to false, and ready becomes true again only
\* once the parser built for the new schema has emitted an `input` event.
C24_Step ==
  /\ (formSchema' # formSchema => ready' = FALSE)
  /\ (ready = FALSE /\ ready' = TRUE => FreshInput')

C24_ReadyAfterNewInput ==
  /\ []((formParser = NONE \/ ready = FALSE) => FormRender = "nothing")
  /\ [][C24_Step]_vars

\* ------------------------------------------------------------------ C25
\* C25: in every reachable state of the array parser, also after clear(),
\* reset(), a move, a deletion and setIndexValue, model is the element-wise
\* coercion of the whole of rawValue: same length, model[i] the coercion of
\* rawValue[i].
C25_ModelFollowsRawValue ==
  /\ Len(model) = Len(rawValue)
  /\ \A i \in 1..Len(model) : model[i] = ValueArray(rawValue)[i]

\* ------------------------------------------------------------------ C26
\* C26: in a sortable array, a value change emitted by the child f writes
\* rawValue at the position f occupies in childrenList at that moment and at
\* no other index, and leaves the length of rawValue as it is, whatever moves
\* and deletions came before.
C26_Step ==
  (last'.op = "change" /\ sortable) =>
    \A f \in Rendered : \A v \in ChildValues(f) :
      ChildChange(f, v) =>
        \A k \in 1..Len(childrenList) :
          childrenList[k] = f =>
            /\ Len(rawValue') = Len(rawValue)
            /\ Get(rawValue', k - 1) = v
            /\ \A i \in 1..Len(rawValue) : i # k => rawValue'[i] = rawValue[i]

C26_ChangeAtCurrentPosition == [][C26_Step]_vars

\* ------------------------------------------------------------------ C27
\* how often the last child onChange did ev
LogCount(ev) == Cardinality({i \in DOMAIN objLog : objLog[i].ev = ev})

\* the dependents the dependency map lists for key
DependentsOf(deps, key) ==
  IF DepIndex(deps, key) = 0 THEN {}
  ELSE {deps[DepIndex(deps, key)].props[j] :
          j \in 1..Len(deps[DepIndex(deps, key)].props)}

\* C27: when the value of a child property changes, the object parser writes
\* the value into its model at that key, then calls its own commit(), then
\* runs the dependency propagation for that key, each exactly once; every
\* required flag is rewritten after the commit.
C27_WriteCommitPropagate ==
  (ObjParsed /\ last.op = "commit") =>
    /\ Len(objLog) >= 3
    /\ objLog[1].ev = "write"
    /\ objLog[2].ev = "commit"
    /\ objLog[3].ev = "propagate"
    /\ objLog[3].arg = objLog[1].arg
    /\ LogCount("write") = 1
    /\ LogCount("commit") = 1
    /\ LogCount("propagate") = 1
    /\ \A i \in DOMAIN objLog : objLog[i].ev = "required" => i > 2

\* a change whose propagation rewrote the required flag of a dependent
C27_Witness ==
  /\ ObjParsed
  /\ last.op = "commit"
  /\ \E i \in DOMAIN objLog : objLog[i].ev = "required" /\ objLog[i].arg # objLog[1].arg

\* ------------------------------------------------------------------ C28
\* C28: the dependency propagation of a commit rewrites only the required
\* flag and the key of the triggering field and of its dependents: the value
\* just written apart, no model changes, no other child changes at all, and
\* after the propagation has started nothing is written and nothing committed.
C28_Step ==
  last'.op = "commit" =>
    \A k \in Keys : \A v \in {Undef, FilledVal} :
      ObjChange(k, v) =>
        /\ objModel' = [objModel EXCEPT ![k] = v]
        /\ DOMAIN objParsers' = DOMAIN objParsers
        /\ \A f \in DOMAIN objParsers :
             /\ objParsers'[f].model = IF f = k THEN v ELSE objParsers[f].model
             /\ f \notin {k} \cup DependentsOf(dependencies, k) => objParsers'[f] = objParsers[f]
        /\ \A i \in DOMAIN objLog' :
             i > 3 => /\ objLog'[i].ev \in {"key", "required", "render"}
                      /\ objLog'[i].ev # "render" =>
                           objLog'[i].arg[1] \in {k} \cup DependentsOf(dependencies, k)

C28_PropagationPure == [][C28_Step]_vars

\* a propagation that gave a dependent a new key and a new required flag
C28_Witness ==
  /\ ObjParsed
  /\ last.op = "commit"
  /\ ~threw
  /\ \E i \in DOMAIN objLog : objLog[i].ev = "key" /\ objLog[i].arg # objLog[1].arg
  /\ LogCount("render") = 1

\* ------------------------------------------------------------------ C29
\* C29: after a commit to a property k that has dependencies, the required
\* flag of k itself is true exactly when k is non-empty or some other property
\* that lists k as a dependent is non-empty.
C29_Step ==
  last'.op = "commit" =>
    \A k \in Keys : \A v \in {Undef, FilledVal} :
      (ObjChange(k, v) /\ DepIndex(dependencies, k) # 0) =>
        (objParsers'[k].required <=>
           (~IsEmpty(v) \/ \E t \in TriggersOf(k) \ {k} : ~IsEmpty(objModel'[t])))

C29_TriggerRequired == [][C29_Step]_vars

\* ------------------------------------------------------------------ C30
\* C30: during the dependency propagation every field whose required flag
\* changes while its value is empty receives a new key, and the trigger and
\* every dependent are passed to requestRender in one call.
C30_Step ==
  last'.op = "commit" =>
    \A k \in Keys : \A v \in {Undef, FilledVal} :
      (ObjChange(k, v) /\ DepIndex(dependencies, k) # 0) =>
        /\ \A f \in DOMAIN objParsers :
             (objParsers'[f].required # objParsers[f].required /\ IsEmpty(objModel'[f]))
               => objParsers'[f].key # objParsers[f].key
        /\ \E i \in DOMAIN objLog' :
             /\ objLog'[i].ev = "render"
             /\ {objLog'[i].arg[j] : j \in 1..Len(objLog'[i].arg)}
                  = {k} \cup DependentsOf(dependencies, k)
             /\ \A j \in DOMAIN objLog' : objLog'[j].ev = "render" => j = i

C30_KeyAndRender == [][C30_Step]_vars

\* ------------------------------------------------------------------ C31
\* the entries of s without repetition, in order of first occurrence
RECURSIVE Dedup(_)
Dedup(s) ==
  IF s = <<>> THEN <<>>
  ELSE LET front == Dedup(SubSeq(s, 1, Len(s) - 1))
       IN  IF Includes(front, s[Len(s)]) THEN front ELSE Append(front, s[Len(s)])

\* the children the order list asks for: its entries that are properties,
\* each once, then the properties it lacks in key order (the keys parse()
\* pushes onto the list are the ones it lacked)
OrderedProperties ==
  LET keys == ParseProperties(objSchema)
      listed == IF objOrder.given
                THEN Dedup(SelectSeq(objOrder.list, LAMBDA k : Includes(keys, k)))
                ELSE <<>>
  IN  listed \o SelectSeq(keys, LAMBDA k : ~Includes(listed, k))

\* C31: after parse() the object parser has exactly one child per property of
\* its properties map, in the sequence of descriptor.order followed by the
\* properties the order lacks, or in key order without an order list,
\* whatever the order list holds.
C31_OneChildPerProperty ==
  ObjParsed => (~threw /\ objChildren = OrderedProperties)

\* ------------------------------------------------------------------ C32
\* C32: after parse(), max is the enum length for a unique-items enum array,
\* else maxItems when the schema declares it, else the tuple length for a
\* tuple without additionalItems and -1 for a tuple with additionalItems; it
\* is -2 for an array schema that declares no items, and for no other.
C32_Max ==
  Parsed =>
    IF schema.uniqueItems /\ schema.enum THEN max = Len(EnumVals)
    ELSE IF schema.maxItems # NONE THEN max = schema.maxItems
    ELSE IF schema.shape = "tuple"
    THEN max = IF schema.additionalItems THEN -1 ELSE Len(TupleItems)
    ELSE (max = -2 <=> schema.shape = "none")

\* C33 as stated: limit is the item list length for a unique-items array and
\* min(count, items.length) otherwise, and children beyond limit exist only
\* when an additionalItems schema is declared.
C33_Limit ==
  Parsed =>
    /\ Limit(Self) = IF uniqueItems THEN Len(items) ELSE Min(count, Len(items))
    /\ (Len(Children(Self).childrenList) > Limit(Self) => additionalItems)

\* C33: limit is the item list length for a unique-items array or when no
\* items are declared; it is count when items is a single schema or count is
\* below minItems; otherwise it is min(count, items.length); children beyond
\* limit exist only when an additionalItems schema is declared.
C33_LimitOfList ==
  Parsed =>
    /\ Limit(Self) = IF uniqueItems \/ Len(items) = 0 THEN Len(items)
                     ELSE IF schema.shape = "single" \/ count < minItems THEN count
                     ELSE Min(count, Len(items))
    /\ (Len(Children(Self).childrenList) > Limit(Self) => additionalItems)

C33_Witness ==
  /\ Parsed
  /\ schema.shape = "single"
  /\ ~uniqueItems
  /\ count = 2
  /\ Limit(Self) = 2
  /\ Len(Children(Self).childrenList) = 2

C34_Step ==
  (last.op = "parse" /\ last'.op = "reparse") =>
    /\ items' = items
    /\ max' = max
    /\ count' = count
    /\ Len(children') = Len(children)

\* C34: a second parse() with the schema and the model unchanged leaves
\* items, max, count and the number of children as the first parse() left them.
C34_ParseIdempotent == [][C34_Step]_vars

LogCountAfter(ev) == Cardinality({i \in DOMAIN objLog' : objLog'[i].ev = ev})

C36_Step ==
  /\ (objPc = "parsed" /\ last'.op = "commit") =>
        /\ LogCountAfter("write") = 1
        /\ LogCountAfter("commit") = 1
        /\ objLog'[1].ev = "write"
        /\ objLog'[2].ev = "commit"
        /\ \A k \in Keys \ {objLog'[1].arg[1]} : objModel'[k] = objModel[k]
  /\ (formPc = "mounted" /\ last'.op = "change") =>
        /\ Len(inputs') = Len(inputs) + 1
        /\ inputs'[Len(inputs')].cause = "change"
        /\ SubSeq(inputs', 1, Len(inputs)) = inputs

C37_RequiredStays ==
  ObjParsed =>
    \A k \in objSchema.required \cap DOMAIN objParsers : objParsers[k].required

\* C38: right after parse(), before any commit, every dependent of a
\* triggering property that the initial model fills has required = true.
C38_RequiredAtParse ==
  (ObjParsed /\ last.op = "parse" /\ ~threw) =>
    \A i \in DOMAIN dependencies :
      ~IsEmpty(objModel[dependencies[i].key]) =>
        \A j \in DOMAIN dependencies[i].props :
          dependencies[i].props[j] \in DOMAIN objParsers =>
            objParsers[dependencies[i].props[j]].required

C39_Step == (Parsed /\ last'.op = "delete") => count' >= minItems'

\* C39: a delete never takes count below minItems.
C39_DeleteKeepsMinItems == [][C39_Step]_vars

\* pushButton.disabled
PushDisabled == count = max \/ Len(items) = 0

C40_Step ==
  (Parsed /\ ~PushDisabled /\ last'.op = "push" /\ count' # count) =>
    /\ count' = count + 1
    /\ \A i \in 0..(count - 1) : Get(rawValue', i) = Get(rawValue, i)
    /\ Len(childrenList') = Len(childrenList) + 1
    /\ Get(rawValue', count) \in {Undef, DefaultVal}

\* C40: a push of an enabled button that takes effect raises count by one,
\* keeps the raw values of the existing items in place and appends one item
\* whose value is the item schema's default or undefined.
C40_PushAppends == [][C40_Step]_vars
====
